---- MODULE Spec2Model ----
(***************************************************************************)
(* A model of the comparative analyses of themis (src/themis/analyze.py):  *)
(* oracle_combination, compare_systems, analyze_answers and                *)
(* system_similarity, each applied to a collated table; and of the steps   *)
(* that make a collated table: interpret_annotation_assist                 *)
(* (src/themis/annotate.py) and add_judgments_and_frequencies_to_qa_pairs. *)
(*                                                                         *)
(* A table (a pandas DataFrame) is a sequence of rows, a row a record of   *)
(* its cells.  Questions, systems and answer texts are numbers that stand  *)
(* for strings in their sort order.  A boolean cell holds True (1) or      *)
(* False (0), as Python sums them, and a missing cell holds NaN.           *)
(***************************************************************************)
EXTENDS Integers, Sequences, FiniteSets

VARIABLES table, call, result

vars == <<table, call, result>>

\* ---------------------------------------------------------------- bounds
MaxRows == 3
MaxOracleRows == 4
NumQuestions == 2
NumSystems == 2
NumSimilaritySystems == 3
NumAnswers == 2
MaxConfidence == 2
MaxTextLen == 2
MaxAnnotations == 3
MaxScore == 1
MaxAnswerRecords == 2
MaxJudgments == 2
MaxFrequencies == 2
MaxFrequency == 2

\* ---------------------------------------------------------------- cells
True == 1
False == 0
NaN == -1
\* The value of an optional frequency filter that is not given.
None == -2
\* The name given to the combined system (an argument of oracle_combination).
OracleName == 0

Questions == 1..NumQuestions
Systems == 1..NumSystems
SimilaritySystems == 1..NumSimilaritySystems
Answers == 1..NumAnswers
Confidences == 1..MaxConfidence

\* Judgments of an answer: (In Purview, Correct), or both missing when the
\* answer has not been judged.
Judged == {<<True, True>>, <<True, False>>, <<False, True>>, <<False, False>>}
Unjudged == <<NaN, NaN>>
Judgments == Judged \cup {Unjudged}

\* The confidences and judgments a new row may hold.  No operation reads the
\* confidence of a row that dropna removes, so an unjudged row holds the
\* first confidence.
Scored == (Confidences \X Judged) \cup {<<1, Unjudged>>}

\* The frequency of a question comes from the question frequency table, so
\* it is the same in every row of the question.
FrequencyOf(q) == q

\* The answer text a system gives to a question when each system gives its
\* own text.
AnswerOf(q, s) == 10 * q + s

\* A row of a collated file (CollatedFileType.columns).
Row(q, s, a, c, j) ==
    [question |-> q, system |-> s, answer |-> a, confidence |-> c,
     in_purview |-> j[1], correct |-> j[2], frequency |-> FrequencyOf(q)]

\* ---------------------------------------------------------------- helpers
Range(s) == {s[i] : i \in 1..Len(s)}

RECURSIVE SumSeq(_)
SumSeq(s) == IF s = <<>> THEN 0 ELSE Head(s) + SumSeq(Tail(s))

\* Sequences of distinct elements of S of length 0..n.
RECURSIVE DistinctSeqs(_, _)
DistinctSeqs(S, n) ==
    IF n = 0 THEN {<<>>}
    ELSE LET shorter == DistinctSeqs(S, n - 1)
         IN shorter \cup {Append(t, x) : t \in {u \in shorter : Len(u) = n - 1},
                                         x \in S}

NoCall == [fn |-> "none"]
NoResult == [status |-> "none"]
Raise(e) == [status |-> "error", error |-> e]
Return(v) == [status |-> "ok", value |-> v]

\* ---------------------------------------------------------------- drop_missing
isnull(row) == row.in_purview = NaN \/ row.correct = NaN

dropna(systems_data) == SelectSeq(systems_data, LAMBDA row : ~isnull(row))

\* A drop_missing that keeps the rows with missing cells.
drop_missing_keeps(systems_data) == systems_data

\* any(systems_data.isnull()) iterates the column names of the frame, which
\* are non-empty strings, so the test is always true and dropna always runs.
drop_missing(systems_data) == dropna(systems_data)

\* ---------------------------------------------------------------- fractions
\* A percentile rank is a fraction <<numerator, denominator>> with a positive
\* denominator; pandas holds the correctly rounded float of the same value,
\* so two ranks compare as their fractions do.
FracLess(a, b) == a[1] * b[2] < b[1] * a[2]
FracEq(a, b) == a[1] * b[2] = b[1] * a[2]

\* ---------------------------------------------------------------- oracle_combination
\* systems_data[systems_data[SYSTEM] == system_name]
SelectSystem(systems_data, system_name) ==
    SelectSeq(systems_data, LAMBDA row : row.system = system_name)

\* The index of a system's rows after set_index(QUESTION).
QuestionIndex(system) == [i \in 1..Len(system) |-> system[i].question]

\* system[CONFIDENCE].rank(pct=True) at row i: the average rank of the row's
\* confidence among the system's own rows (ties averaged), over their count.
Percentile(system, i) ==
    LET less == Cardinality({j \in 1..Len(system) :
                                system[j].confidence < system[i].confidence})
        same == Cardinality({j \in 1..Len(system) :
                                system[j].confidence = system[i].confidence})
    IN <<2 * less + same + 1, 2 * Len(system)>>

\* A log_correct that does not fail on an empty table.
log_correct_guarded(system_data) == "logged"

\* log_correct: 100.0 * m / n divides by the number of rows.
log_correct(system_data) ==
    IF Len(system_data) = 0 THEN "ZeroDivisionError" ELSE "logged"

IsMonotonic(index) == \A i \in 1..(Len(index) - 1) : index[i] <= index[i + 1]

KeepIn(index, other) == SelectSeq(index, LAMBDA q : q \in Range(other))

\* Index.intersection of two indexes of distinct labels.  pandas does not fix
\* the order of the result: releases up to 0.23 keep the order of the right
\* operand unless both are sorted or equal, later ones keep the left's.
IndexOrders == {"left", "right"}

intersection(m, i, order) ==
    IF order = "left" \/ m = i \/ (IsMonotonic(m) /\ IsMonotonic(i))
    THEN KeepIn(m, i)
    ELSE KeepIn(i, m)

\* functools.reduce(lambda m, i: m.intersection(i), indexes), indexes not empty.
RECURSIVE reduce_intersection(_, _, _)
reduce_intersection(m, indexes, order) ==
    IF indexes = <<>> THEN m
    ELSE reduce_intersection(intersection(m, Head(indexes), order), Tail(indexes), order)

\* system.loc[q]: the row of the system for question q.
Loc(system, q) == system[CHOOSE i \in 1..Len(system) : system[i].question = q]

LocPercentile(system, q) ==
    Percentile(system, CHOOSE i \in 1..Len(system) : system[i].question = q)

\* DataFrame.idxmax(axis=1) and idxmin(axis=1) of one row: the first column
\* that holds the largest (smallest) value.
idxmax(p) ==
    CHOOSE k \in 1..Len(p) :
        /\ \A j \in 1..Len(p) : ~FracLess(p[k], p[j])
        /\ \A j \in 1..(k - 1) : FracLess(p[j], p[k])

idxmin(p) ==
    CHOOSE k \in 1..Len(p) :
        /\ \A j \in 1..Len(p) : ~FracLess(p[j], p[k])
        /\ \A j \in 1..(k - 1) : FracLess(p[k], p[j])

\* A purview and a correctness copied from the first system, not combined.
all_in_purview_first(systems, q) == Loc(systems[1], q).in_purview

any_correct_first(systems, q) == Loc(systems[1], q).correct

\* functools.reduce(lambda m, x: m & x, ...) and ... m | x ..., at one question.
all_in_purview(systems, q) ==
    IF \A k \in 1..Len(systems) : Loc(systems[k], q).in_purview = True
    THEN True ELSE False

any_correct(systems, q) ==
    IF \E k \in 1..Len(systems) : Loc(systems[k], q).correct = True
    THEN True ELSE False

\* Whether the oracle row takes the highest percentile (else the lowest).
use_highest(in_purview, correct) == correct = True

\* The oracle's row for question q before its answer is looked up: a copy of
\* the first system's row under the oracle's name, with the combined purview
\* and correctness, the chosen percentile and the system that holds it.
oracle_cells(base, system_names, oracle_name, p, k, in_purview, correct) ==
    [question |-> base.question, system |-> oracle_name, confidence |-> p[k],
     in_purview |-> in_purview, correct |-> correct,
     frequency |-> base.frequency, answering_system |-> system_names[k]]

oracle_choice(base, system_names, oracle_name, p, in_purview, correct) ==
    oracle_cells(base, system_names, oracle_name, p,
                 IF use_highest(in_purview, correct) THEN idxmax(p) ELSE idxmin(p),
                 in_purview, correct)

\* The row of system_confidences for question q: each system's percentile.
RECURSIVE system_confidences(_, _)
system_confidences(systems, q) ==
    IF systems = <<>> THEN <<>>
    ELSE <<LocPercentile(Head(systems), q)>> \o system_confidences(Tail(systems), q)

oracle_row(systems, system_names, oracle_name, q) ==
    oracle_choice(Loc(systems[1], q), system_names, oracle_name,
                  system_confidences(systems, q),
                  all_in_purview(systems, q), any_correct(systems, q))

\* The oracle's rows, one for each of the questions, in their order.
RECURSIVE oracle_rows(_, _, _, _)
oracle_rows(systems, system_names, oracle_name, questions) ==
    IF questions = <<>> THEN <<>>
    ELSE <<oracle_row(systems, system_names, oracle_name, Head(questions))>>
            \o oracle_rows(systems, system_names, oracle_name, Tail(questions))

\* pandas.merge(systems_data, oracle, left_on=[QUESTION, SYSTEM],
\* right_on=[QUESTION, ANSWERING_SYSTEM])[ANSWER]: an inner join keeps the
\* order of the left rows and numbers its rows anew.
merge_answers(systems_data, oracle) ==
    LET matched == SelectSeq(systems_data, LAMBDA row :
                       \E i \in 1..Len(oracle) :
                           /\ oracle[i].question = row.question
                           /\ oracle[i].answering_system = row.system)
    IN [i \in 1..Len(matched) |-> matched[i].answer]

\* oracle[ANSWER] = <series>: row i of the oracle (numbered anew by
\* reset_index) takes the series' value at label i, NaN where it has none.
assign_answers(oracle, answers) ==
    [i \in 1..Len(oracle) |->
        [question |-> oracle[i].question, system |-> oracle[i].system,
         confidence |-> oracle[i].confidence, in_purview |-> oracle[i].in_purview,
         correct |-> oracle[i].correct, frequency |-> oracle[i].frequency,
         answering_system |-> oracle[i].answering_system,
         answer |-> IF i <= Len(answers) THEN answers[i] ELSE NaN]]

\* The end of oracle_combination: the answers are looked up and the oracle is
\* logged, which divides by its number of rows.
oracle_answers(data, oracle) == assign_answers(oracle, merge_answers(data, oracle))

oracle_logged(oracle) ==
    IF log_correct(oracle) = "ZeroDivisionError"
    THEN Raise("ZeroDivisionError")
    ELSE Return(oracle)

\* The questions asked to all the systems, of which there is at least one.
questions_of_all(systems, order) ==
    reduce_intersection(QuestionIndex(systems[1]),
                        [k \in 1..(Len(systems) - 1) |-> QuestionIndex(systems[k + 1])],
                        order)

oracle_of_systems(data, systems, system_names, oracle_name, order) ==
    oracle_logged(oracle_answers(data,
        oracle_rows(systems, system_names, oracle_name, questions_of_all(systems, order))))

\* The loop over system_names logs each system (and fails on one without
\* rows); reduce() of no index at all is a TypeError.
oracle_of_data(data, systems, system_names, oracle_name, order) ==
    IF \E k \in 1..Len(systems) : log_correct(systems[k]) = "ZeroDivisionError"
    THEN Raise("ZeroDivisionError")
    ELSE IF systems = <<>>
    THEN Raise("TypeError")
    ELSE oracle_of_systems(data, systems, system_names, oracle_name, order)

\* The loop over system_names: the rows of each named system, in turn.
RECURSIVE select_systems(_, _)
select_systems(data, system_names) ==
    IF system_names = <<>> THEN <<>>
    ELSE <<SelectSystem(data, Head(system_names))>>
            \o select_systems(data, Tail(system_names))

oracle_of(data, system_names, oracle_name, order) ==
    oracle_of_data(data, select_systems(data, system_names), system_names,
                   oracle_name, order)

oracle_combination(systems_data, system_names, oracle_name, order) ==
    oracle_of(drop_missing(systems_data), system_names, oracle_name, order)

\* ---------------------------------------------------------------- compare_systems
\* systems_data[systems_data[IN_PURVIEW]]
in_purview_rows(systems_data) ==
    SelectSeq(systems_data, LAMBDA row : row.in_purview = True)

\* The rows of pandas.merge(data_x, data_y, on=QUESTION, how="left").dropna()
\* that one row of data_x gives: one for each row of data_y with its question,
\* in the order of data_y (a row of data_x without a match holds NaN in the
\* columns of y and is dropped).
RECURSIVE merge_row(_, _)
merge_row(row_x, data_y) ==
    IF data_y = <<>> THEN <<>>
    ELSE (IF Head(data_y).question = row_x.question
          THEN <<[question |-> row_x.question, frequency |-> row_x.frequency,
                  answer_x |-> row_x.answer, confidence_x |-> row_x.confidence,
                  correct_x |-> row_x.correct,
                  answer_y |-> Head(data_y).answer,
                  confidence_y |-> Head(data_y).confidence,
                  correct_y |-> Head(data_y).correct]>>
          ELSE <<>>) \o merge_row(row_x, Tail(data_y))

RECURSIVE merge_on_question(_, _)
merge_on_question(data_x, data_y) ==
    IF data_x = <<>> THEN <<>>
    ELSE merge_row(Head(data_x), data_y) \o merge_on_question(Tail(data_x), data_y)

\* The rows compare_systems selects in a mode it knows.
better(questions) ==
    SelectSeq(questions, LAMBDA row : row.correct_x = True /\ row.correct_y = False)

\* A "worse" that tests the same columns as "better".
worse_as_better(questions) ==
    SelectSeq(questions, LAMBDA row : row.correct_x = True /\ row.correct_y = False)

worse(questions) ==
    SelectSeq(questions, LAMBDA row : row.correct_x = False /\ row.correct_y = True)

\* The order of sort_values([confidence of x, FREQUENCY, QUESTION],
\* ascending=(False, False, True)).
sorts_before(a, b) ==
    \/ a.confidence_x > b.confidence_x
    \/ a.confidence_x = b.confidence_x /\ a.frequency > b.frequency
    \/ a.confidence_x = b.confidence_x /\ a.frequency = b.frequency
          /\ a.question < b.question

\* Insert a row into sorted rows, after the rows it does not sort before.
RECURSIVE insert_sorted(_, _)
insert_sorted(sorted, row) ==
    IF sorted = <<>> THEN <<row>>
    ELSE IF sorts_before(row, Head(sorted)) THEN <<row>> \o sorted
    ELSE <<Head(sorted)>> \o insert_sorted(Tail(sorted), row)

RECURSIVE sort_values(_)
sort_values(d) ==
    IF d = <<>> THEN <<>>
    ELSE insert_sorted(sort_values(SubSeq(d, 1, Len(d) - 1)), d[Len(d)])

\* d[[QUESTION, FREQUENCY, answer and confidence of x, of y]]
comparison_columns(d) ==
    [i \in 1..Len(d) |->
        [question |-> d[i].question, frequency |-> d[i].frequency,
         answer_x |-> d[i].answer_x, confidence_x |-> d[i].confidence_x,
         answer_y |-> d[i].answer_y, confidence_y |-> d[i].confidence_y]]

\* The log line "%d %s (%0.3f%%)" divides the selected count by the count of
\* shared question/answer pairs.
log_comparison(m, n) == IF n = 0 THEN "ZeroDivisionError" ELSE "logged"

\* compare_systems for two different systems x and y.
compare_systems(systems_data, x, y, comparison_type) ==
    LET data == in_purview_rows(drop_missing(systems_data))
        data_x == SelectSystem(data, x)
        data_y == SelectSystem(data, y)
        questions == merge_on_question(data_x, data_y)
        n == Len(questions)
    IN IF comparison_type \notin {"better", "worse"}
       THEN Raise("ValueError")
       ELSE LET d == IF comparison_type = "better" THEN better(questions)
                     ELSE worse(questions)
            IN IF log_comparison(Len(d), n) = "ZeroDivisionError"
               THEN Raise("ZeroDivisionError")
               ELSE Return(sort_values(comparison_columns(d)))

\* ---------------------------------------------------------------- analyze_answers
\* pandas.concat(systems_data): the rows of the tables, one table after another.
RECURSIVE concat(_)
concat(tables) ==
    IF tables = <<>> THEN <<>> ELSE Head(tables) \o concat(Tail(tables))

\* The two optional filters on the frequency of the question.
frequency_filter(systems_data, freq_le, freq_gr) ==
    SelectSeq(systems_data, LAMBDA row :
        /\ freq_le # None => row.frequency <= freq_le
        /\ freq_gr # None => row.frequency > freq_gr)

\* A quotient of two counts times 100.0, as pandas divides two columns of
\* integers: <<100 * count, of>>, which is NaN when both counts are 0 and
\* infinite when only the divisor is.
percent(count, of) == <<100 * count, of>>

IsNaN(pct) == pct[1] = 0 /\ pct[2] = 0
IsInf(pct) == pct[1] > 0 /\ pct[2] = 0

\* One row of the summary: the statistics of a system's rows.
summary_row(system_name, rows) ==
    LET in_purview == SumSeq([i \in 1..Len(rows) |-> rows[i].in_purview])
        correct == SumSeq([i \in 1..Len(rows) |-> rows[i].correct])
        total == Len(rows)
    IN [system |-> system_name, total |-> total,
        unique |-> Cardinality({rows[i].answer : i \in 1..Len(rows)}),
        in_purview |-> in_purview, in_purview_pct |-> percent(in_purview, total),
        correct |-> correct, correct_pct |-> percent(correct, in_purview)]

\* groupby(SYSTEM): a row for each system that has rows, in the order of the
\* systems' names.
RECURSIVE summarize(_, _)
summarize(systems_data, system) ==
    IF \A row \in Range(systems_data) : row.system < system THEN <<>>
    ELSE (IF \E row \in Range(systems_data) : row.system = system
          THEN <<summary_row(system, SelectSystem(systems_data, system))>>
          ELSE <<>>) \o summarize(systems_data, system + 1)

\* sort_values(correct_percent, ascending=False): the larger percentage
\* first and NaN last.
higher_percent(a, b) ==
    /\ ~IsNaN(a)
    /\ \/ IsNaN(b)
       \/ IsInf(a) /\ ~IsInf(b)
       \/ ~IsInf(a) /\ ~IsInf(b) /\ a[1] * b[2] > b[1] * a[2]

RECURSIVE insert_by_percent(_, _)
insert_by_percent(sorted, row) ==
    IF sorted = <<>> THEN <<row>>
    ELSE IF higher_percent(row.correct_pct, Head(sorted).correct_pct)
    THEN <<row>> \o sorted
    ELSE <<Head(sorted)>> \o insert_by_percent(Tail(sorted), row)

RECURSIVE sort_by_percent(_)
sort_by_percent(summary) ==
    IF summary = <<>> THEN <<>>
    ELSE insert_by_percent(sort_by_percent(SubSeq(summary, 1, Len(summary) - 1)),
                           summary[Len(summary)])

analyze_answers(systems_data, freq_le, freq_gr) ==
    Return(sort_by_percent(
        summarize(frequency_filter(dropna(concat(systems_data)), freq_le, freq_gr), 1)))

\* ---------------------------------------------------------------- system_similarity
\* systems_data[SYSTEM].drop_duplicates().sort_values(), from system on.
RECURSIVE sorted_systems(_, _)
sorted_systems(systems_data, system) ==
    IF \A row \in Range(systems_data) : row.system < system THEN <<>>
    ELSE (IF \E row \in Range(systems_data) : row.system = system
          THEN <<system>> ELSE <<>>) \o sorted_systems(systems_data, system + 1)

\* itertools.combinations(systems, 2): the pairs in the order of the loop.
RECURSIVE combinations(_)
combinations(systems) ==
    IF systems = <<>> THEN <<>>
    ELSE [i \in 1..(Len(systems) - 1) |-> <<systems[1], systems[i + 1]>>]
            \o combinations(Tail(systems))

\* The body of the loop for the systems x and y: the row it appends, or the
\* error of dividing by the number of shared question/answer pairs.  (The
\* inner join holds the rows of the left join that have a match.)
similarity_row(systems_data, x, y) ==
    LET m == merge_on_question(SelectSystem(systems_data, x),
                               SelectSystem(systems_data, y))
        n == Len(m)
        same_answer == Len(SelectSeq(m, LAMBDA row : row.answer_x = row.answer_y))
    IN IF n = 0 THEN Raise("ZeroDivisionError")
       ELSE Return([system_1 |-> x, system_2 |-> y, same_answer |-> same_answer,
                    same_answer_pct |-> percent(same_answer, n)])

RECURSIVE similarity_loop(_, _, _)
similarity_loop(systems_data, pairs, results) ==
    IF pairs = <<>> THEN Return(results)
    ELSE LET row == similarity_row(systems_data, Head(pairs)[1], Head(pairs)[2])
         IN IF row.status = "error" THEN row
            ELSE similarity_loop(systems_data, Tail(pairs), Append(results, row.value))

similarity_of(data) ==
    similarity_loop(data, combinations(sorted_systems(data, 1)), <<>>)

system_similarity(systems_data) == similarity_of(drop_missing(systems_data))

\* ---------------------------------------------------------------- actions
Init ==
    /\ table = <<>>
    /\ call = NoCall
    /\ result = NoResult

\* One more row of a collated table in which each system gives one answer to
\* a question.
AddOracleRow ==
    /\ call.fn = "none"
    /\ Len(table) < MaxOracleRows
    /\ \E q \in Questions, s \in Systems, cj \in Scored :
          /\ \A i \in 1..Len(table) : ~(table[i].question = q /\ table[i].system = s)
          /\ table' = Append(table, Row(q, s, AnswerOf(q, s), cj[1], cj[2]))
    /\ UNCHANGED <<call, result>>

OracleCombination ==
    /\ call.fn = "none"
    /\ \E system_names \in DistinctSeqs(Systems, NumSystems) :
       \E order \in IF Len(system_names) < 2 THEN {"left"} ELSE IndexOrders :
          /\ call' = [fn |-> "oracle_combination", system_names |-> system_names]
          /\ result' = oracle_combination(table, system_names, OracleName, order)
    /\ UNCHANGED table

NextOracle == AddOracleRow \/ OracleCombination

SpecOracle == Init /\ [][NextOracle]_vars

\* ---------------------------------------------------------------- oracle claims
OracleReturned == call.fn = "oracle_combination" /\ result.status = "ok"

\* The rows of the table that hold a judgment, which are the answers the
\* analyses read.
JudgedRows == {row \in Range(table) : row.in_purview # NaN /\ row.correct # NaN}

\* The questions a system has answered.
Answered(s) == {row.question : row \in {r \in JudgedRows : r.system = s}}

\* The questions every named system has answered.
AnsweredByAll(system_names) ==
    {q \in Questions : \A s \in Range(system_names) : q \in Answered(s)}

\* C1: every row of the oracle is correct exactly when some named system is
\* correct on the row's question.
C1_OracleCorrectIffAnyCorrect ==
    OracleReturned =>
        \A i \in 1..Len(result.value) :
            LET o == result.value[i]
            IN /\ o.correct \in {True, False}
               /\ (o.correct = True) <=>
                     \E row \in JudgedRows :
                         /\ row.system \in Range(call.system_names)
                         /\ row.question = o.question
                         /\ row.correct = True

\* Two systems are combined and disagree on a question the oracle gets right,
\* and the oracle gets another question wrong.
C1_Witness ==
    /\ OracleReturned
    /\ Len(call.system_names) = 2
    /\ \E i, j \in 1..Len(result.value) :
          /\ result.value[i].correct = True
          /\ result.value[j].correct = False
          /\ \E row \in JudgedRows :
                /\ row.question = result.value[i].question
                /\ row.system \in Range(call.system_names)
                /\ row.correct = False

\* C2: every row of the oracle is in purview exactly when every named system
\* marks the row's question in purview.
C2_OraclePurviewIffAllInPurview ==
    OracleReturned =>
        \A i \in 1..Len(result.value) :
            LET o == result.value[i]
            IN /\ o.in_purview \in {True, False}
               /\ (o.in_purview = True) <=>
                     \A row \in JudgedRows :
                         (row.system \in Range(call.system_names)
                             /\ row.question = o.question)
                         => row.in_purview = True

\* Two systems are combined and disagree on the purview of a question, which
\* the oracle marks out of purview, and another question is in purview.
C2_Witness ==
    /\ OracleReturned
    /\ Len(call.system_names) = 2
    /\ \E i, j \in 1..Len(result.value) :
          /\ result.value[i].in_purview = False
          /\ result.value[j].in_purview = True
          /\ \E row \in JudgedRows :
                /\ row.question = result.value[i].question
                /\ row.system \in Range(call.system_names)
                /\ row.in_purview = True

\* The percentile rank of system s's confidence for question q among the
\* system's own answers.
RankOf(s, q) == LocPercentile(SelectSystem(dropna(table), s), q)

\* C3: a correct oracle row holds the highest percentile rank of the named
\* systems and names a system that attains it; an incorrect or out of purview
\* row holds the lowest and names a system that attains it.
C3_OracleConfidenceByPercentile ==
    OracleReturned =>
        \A i \in 1..Len(result.value) :
            LET o == result.value[i]
                names == Range(call.system_names)
                highest == \A s \in names : ~FracLess(o.confidence, RankOf(s, o.question))
                lowest == \A s \in names : ~FracLess(RankOf(s, o.question), o.confidence)
                attained == /\ o.answering_system \in names
                            /\ FracEq(o.confidence, RankOf(o.answering_system, o.question))
            IN /\ o.correct = True => (highest /\ attained)
               /\ (o.correct = False \/ o.in_purview = False) => (lowest /\ attained)

\* C4: the answer of every oracle row is the answer of the table's row for
\* the row's question and answering system.
C4_OracleAnswerOfAnsweringSystem ==
    OracleReturned =>
        \A i \in 1..Len(result.value) :
            LET o == result.value[i]
            IN \E row \in JudgedRows :
                  /\ row.question = o.question
                  /\ row.system = o.answering_system
                  /\ row.answer = o.answer

\* C5: the questions of the oracle are the questions every named system has
\* answered, each once.
C5_OracleQuestionsAreIntersection ==
    OracleReturned =>
        /\ {result.value[i].question : i \in 1..Len(result.value)}
              = AnsweredByAll(call.system_names)
        /\ Len(result.value) = Cardinality(AnsweredByAll(call.system_names))

\* Two systems are combined; one question is answered by both, another by
\* only one of them (the other has it unjudged), and it is left out.
C5_Witness ==
    /\ OracleReturned
    /\ Len(call.system_names) = 2
    /\ \E q \in Questions :
          /\ q \notin AnsweredByAll(call.system_names)
          /\ \E s \in Range(call.system_names) : q \in Answered(s)
          /\ \E row \in Range(table) :
                row.question = q /\ row.system \in Range(call.system_names)
                   /\ row.correct = NaN

\* C6: the oracle fails when no system is named and when no question is
\* answered by all the named systems.
C6_OracleFailsOnEmpty ==
    (call.fn = "oracle_combination"
        /\ (call.system_names = <<>> \/ AnsweredByAll(call.system_names) = {}))
    => (result.status = "error" /\ DOMAIN result = {"status", "error"})

\* Two systems are named, each has answered a question, none in common.
C6_Witness ==
    /\ call.fn = "oracle_combination"
    /\ Len(call.system_names) = 2
    /\ \A s \in Range(call.system_names) : Answered(s) # {}
    /\ AnsweredByAll(call.system_names) = {}
    /\ result.status = "error"

\* A row that is out of purview and correct, which CollatedFileType.__call__
\* warns about when it reads a table.
Anomalous(row) == row.in_purview = False /\ row.correct = True

\* C15: when no row of the named systems is out of purview and correct, no
\* row of the oracle is out of purview and correct.
C15_OracleIntroducesNoAnomaly ==
    (OracleReturned
        /\ \A row \in Range(table) :
              row.system \in Range(call.system_names) => ~Anomalous(row))
    => \A i \in 1..Len(result.value) : ~Anomalous(result.value[i])

\* ---------------------------------------------------------------- comparisons
\* The texts of the answers of the tables given to the comparisons, each with
\* the confidence the system gives it.
ConfidenceOfAnswer(a) == ((a - 1) % MaxConfidence) + 1

ComparisonTypes == {"better", "worse", "same"}

\* Whether the table holds a row with this key of a collated table.
HasKey(q, s, a) ==
    \E i \in 1..Len(table) :
        table[i].question = q /\ table[i].system = s /\ table[i].answer = a

\* One more row of a collated table; a system may give several answers to a
\* question, each in one row.
AddRow ==
    /\ call.fn = "none"
    /\ Len(table) < MaxRows
    /\ \E q \in Questions, s \in Systems, a \in Answers, j \in Judgments :
          /\ j = Unjudged => a = 1
          /\ ~HasKey(q, s, a)
          /\ table' = Append(table, Row(q, s, a, ConfidenceOfAnswer(a), j))
    /\ UNCHANGED <<call, result>>

CompareSystems ==
    /\ call.fn = "none"
    /\ \E x \in Systems : \E y \in Systems \ {x}, comparison_type \in ComparisonTypes :
          /\ call' = [fn |-> "compare_systems", x |-> x, y |-> y,
                      comparison_type |-> comparison_type]
          /\ result' = compare_systems(table, x, y, comparison_type)
    /\ UNCHANGED table

NextCompare == AddRow \/ CompareSystems

SpecCompare == Init /\ [][NextCompare]_vars

CompareCalled == call.fn = "compare_systems"

\* The questions of a result of compare_systems, or the error it raised.
QuestionsOrError(r) ==
    IF r.status = "ok"
    THEN [status |-> "ok", questions |-> {r.value[i].question : i \in 1..Len(r.value)}]
    ELSE r

\* C7: where x does better than y is where y does worse than x: the two calls
\* return the same set of questions, or both fail.
C7_BetterIsWorseSwapped ==
    (CompareCalled /\ call.comparison_type = "better") =>
        QuestionsOrError(result)
            = QuestionsOrError(compare_systems(table, call.y, call.x, "worse"))

\* x does better than y with one of the answers the two give to the same
\* question and not with another.
C7_Witness ==
    /\ CompareCalled
    /\ call.comparison_type = "better"
    /\ result.status = "ok"
    /\ Len(result.value) = 1
    /\ \E row \in JudgedRows, other \in JudgedRows :
          /\ row.system = call.x /\ row.in_purview = True
          /\ other.system = call.y /\ other.in_purview = True
          /\ other.question = row.question
          /\ ~(row.correct = True /\ other.correct = False)

\* C8: compare_systems raises the invalid argument error when the comparison
\* type is not "better" or "worse", and returns a result when it is.
C8_FailsExactlyOnUnknownType ==
    CompareCalled =>
        IF call.comparison_type \in {"better", "worse"}
        THEN result.status = "ok"
        ELSE result = Raise("ValueError")

\* ---------------------------------------------------------------- analyze_answers
\* The frequency filters: none, or one of the frequencies of the questions.
FrequencyFilters == {None} \cup {FrequencyOf(q) : q \in Questions}

\* The lists of one or two tables whose rows are the rows of the table.
TableLists(t) ==
    {<<t>>} \cup {<<SubSeq(t, 1, k), SubSeq(t, k + 1, Len(t))>> : k \in 0..Len(t)}

AnalyzeAnswers ==
    /\ call.fn = "none"
    /\ \E freq_le \in FrequencyFilters, freq_gr \in FrequencyFilters,
          systems_data \in TableLists(table) :
          /\ call' = [fn |-> "analyze_answers", freq_le |-> freq_le, freq_gr |-> freq_gr]
          /\ result' = analyze_answers(systems_data, freq_le, freq_gr)
    /\ UNCHANGED table

NextAnalyze == AddRow \/ AnalyzeAnswers

SpecAnalyze == Init /\ [][NextAnalyze]_vars

\* C9: in every row of the summary the correct answers are among the answers
\* in purview, which are among all the answers, the two percentages are
\* between 0 and 100, and the correct percentage is NaN when no answer is in
\* purview.
C9_PercentagesWithinRange ==
    (call.fn = "analyze_answers" /\ result.status = "ok") =>
        \A i \in 1..Len(result.value) :
            LET row == result.value[i]
            IN /\ 0 <= row.correct /\ row.correct <= row.in_purview
               /\ row.in_purview <= row.total
               /\ row.in_purview_pct[2] > 0
               /\ 0 <= row.in_purview_pct[1]
               /\ row.in_purview_pct[1] <= 100 * row.in_purview_pct[2]
               /\ IF row.in_purview = 0 THEN IsNaN(row.correct_pct)
                  ELSE /\ 0 <= row.correct_pct[1]
                       /\ row.correct_pct[1] <= 100 * row.correct_pct[2]

\* ---------------------------------------------------------------- system_similarity
\* One more row of a table of up to three systems; the similarity reads the
\* question, the system and the answer of a row, and whether it is judged.
AddSimilarityRow ==
    /\ call.fn = "none"
    /\ Len(table) < MaxRows
    /\ \E q \in Questions, s \in SimilaritySystems, a \in Answers,
          j \in {<<True, True>>, Unjudged} :
          /\ j = Unjudged => a = 1
          /\ ~HasKey(q, s, a)
          /\ table' = Append(table, Row(q, s, a, ConfidenceOfAnswer(a), j))
    /\ UNCHANGED <<call, result>>

SystemSimilarity ==
    /\ call.fn = "none"
    /\ call' = [fn |-> "system_similarity"]
    /\ result' = system_similarity(table)
    /\ UNCHANGED table

NextSimilarity == AddSimilarityRow \/ SystemSimilarity

SpecSimilarity == Init /\ [][NextSimilarity]_vars

\* The pairs of different systems that have answered a question in common.
SharingPairs ==
    {pair \in SimilaritySystems \X SimilaritySystems :
        /\ pair[1] < pair[2]
        /\ Answered(pair[1]) \cap Answered(pair[2]) # {}}

\* C10: system_similarity returns, and its entries are the pairs of systems
\* that share a question.
C10_SimilarityOfSharingPairs ==
    call.fn = "system_similarity" =>
        /\ result.status = "ok"
        /\ {<<result.value[i].system_1, result.value[i].system_2>> :
               i \in 1..Len(result.value)} = SharingPairs

\* ---------------------------------------------------------------- answer texts
\* An answer text is a sequence of characters, a letter or a newline.
Letter == "a"
Newline == "\n"
Chars == {Letter, Newline}

\* The texts of the answers and of the judged answers: they begin with a
\* letter.
Texts ==
    {t \in UNION {[1..n -> Chars] : n \in 1..MaxTextLen} : t[1] = Letter}

\* str.replace("\n", "")
RECURSIVE replace_newlines(_)
replace_newlines(text) ==
    IF text = <<>> THEN <<>>
    ELSE IF Head(text) = Newline THEN replace_newlines(Tail(text))
    ELSE <<Head(text)>> \o replace_newlines(Tail(text))

\* ---------------------------------------------------------------- interpret_annotation_assist
\* The values of the Is_In_Purview and Annotation_Score columns of a file of
\* Annotation Assist, and of the judgment threshold.
InPurviewMarks == {0, 1}
AnnotationScores == 0..MaxScore
Thresholds == 0..MaxScore

AnnotationRow(q, a, mark, score) ==
    [question |-> q, answer |-> a, in_purview |-> mark, annotation_score |-> score]

SamePair(r1, r2) == r1.question = r2.question /\ r1.answer = r2.answer

\* annotation_assist[[QUESTION, ANSWER]].duplicated(): every occurrence of a
\* pair after its first.
duplicated(annotation_assist) ==
    [i \in 1..Len(annotation_assist) |->
        \E j \in 1..(i - 1) : SamePair(annotation_assist[j], annotation_assist[i])]

\* The number n of the warning.
sum_duplicates(annotation_assist) ==
    Cardinality({i \in 1..Len(annotation_assist) : duplicated(annotation_assist)[i]})

\* drop_duplicates keeping the first row of a pair.
drop_duplicates_keep_first(annotation_assist) ==
    LET d == duplicated(annotation_assist)
        RECURSIVE keep(_)
        keep(i) == IF i > Len(annotation_assist) THEN <<>>
                   ELSE IF d[i] THEN keep(i + 1)
                   ELSE <<annotation_assist[i]>> \o keep(i + 1)
    IN keep(1)

\* drop_duplicates((QUESTION, ANSWER), keep=False): no row of a pair that
\* occurs more than once is kept.
drop_duplicates(annotation_assist) ==
    SelectSeq(annotation_assist,
              LAMBDA row : Cardinality({i \in 1..Len(annotation_assist) :
                                           SamePair(annotation_assist[i], row)}) = 1)

\* astype("bool") of a number.
astype_bool(x) == IF x # 0 THEN True ELSE False

\* The row after the two column assignments.
interpreted_row(row, judgment_threshold) ==
    [question |-> row.question, answer |-> row.answer,
     in_purview |-> astype_bool(row.in_purview),
     annotation_score |-> row.annotation_score,
     correct |-> IF row.annotation_score >= judgment_threshold THEN True ELSE False]

\* The frame annotation_assist after the function has run: the duplicates
\* are dropped in place when there are any, In Purview is converted and
\* Correct is added.
interpreted(annotation_assist, judgment_threshold) ==
    LET kept == IF sum_duplicates(annotation_assist) > 0
                THEN drop_duplicates(annotation_assist)
                ELSE annotation_assist
    IN [i \in 1..Len(kept) |-> interpreted_row(kept[i], judgment_threshold)]

\* drop(ANNOTATION_SCORE, axis="columns").set_index([QUESTION, ANSWER])
judgment_of(row) ==
    [question |-> row.question, answer |-> row.answer,
     in_purview |-> row.in_purview, correct |-> row.correct]

interpret_annotation_assist(annotation_assist, judgment_threshold) ==
    LET frame == interpreted(annotation_assist, judgment_threshold)
    IN Return([i \in 1..Len(frame) |-> judgment_of(frame[i])])

\* One more row of the file of Annotation Assist.
AddAnnotation ==
    /\ call.fn = "none"
    /\ Len(table) < MaxAnnotations
    /\ \E q \in Questions, a \in Texts, mark \in InPurviewMarks,
          score \in AnnotationScores :
          table' = Append(table, AnnotationRow(q, a, mark, score))
    /\ UNCHANGED <<call, result>>

\* The call works on the frame it is given: the variable table is that frame
\* and holds what the function has made of it when it returns.
InterpretAnnotationAssist ==
    /\ call.fn = "none"
    /\ \E judgment_threshold \in Thresholds :
          /\ call' = [fn |-> "interpret_annotation_assist",
                      annotation_assist |-> table,
                      judgment_threshold |-> judgment_threshold]
          /\ result' = interpret_annotation_assist(table, judgment_threshold)
          /\ table' = interpreted(table, judgment_threshold)

NextInterpret == AddAnnotation \/ InterpretAnnotationAssist

SpecInterpret == Init /\ [][NextInterpret]_vars

InterpretReturned == call.fn = "interpret_annotation_assist" /\ result.status = "ok"

\* The number of rows of a table for a pair of a question and an answer.
Entries(t, q, a) ==
    Cardinality({i \in 1..Len(t) : t[i].question = q /\ t[i].answer = a})

\* C13: the judgments hold no entry for a pair that the input holds twice or
\* more, and exactly one entry for every pair that the input holds once.
C13_DuplicateJudgmentsDropped ==
    InterpretReturned =>
        \A q \in Questions, a \in Texts :
            LET n == Entries(call.annotation_assist, q, a)
                m == Entries(result.value, q, a)
            IN /\ n >= 2 => m = 0
               /\ n = 1 => m = 1
               /\ n = 0 => m = 0

\* The input holds one pair twice, with different scores, and another once.
C13_Witness ==
    /\ InterpretReturned
    /\ \E i, j, k \in 1..Len(call.annotation_assist) :
          LET t == call.annotation_assist
          IN /\ i < j
             /\ SamePair(t[i], t[j])
             /\ t[i].annotation_score # t[j].annotation_score
             /\ ~SamePair(t[i], t[k])
    /\ Len(result.value) = 1

\* C14: no call changes a table that is passed to it.
C14_NoTransformationMutates ==
    [][(call.fn = "none" /\ call'.fn # "none") => table' = table]_vars

\* ---------------------------------------------------------------- add_judgments_and_frequencies_to_qa_pairs
\* The three tables given to the collator: the answers of one system, the
\* judgments and the question frequencies.
AnswerRecord(q, a, c) == [question |-> q, answer |-> a, confidence |-> c]
JudgmentRow(q, a, j) ==
    [question |-> q, answer |-> a, in_purview |-> j[1], correct |-> j[2]]
FrequencyRow(q, f) == [question |-> q, frequency |-> f]
Frequencies == 1..MaxFrequency

\* The rows of a merge for one row of the left table: the rows joined with the
\* matching rows of the right table, in its order; with how="left" a row without a
\* match is kept with the missing cells, otherwise it is left out.
joined(matched, missing, how) ==
    IF matched = <<>>
    THEN IF how = "left" THEN <<missing>> ELSE <<>>
    ELSE matched

\* pandas.merge(qa_pairs, question_frequencies, on=QUESTION, how=how)
with_frequency(row, f) ==
    [column \in DOMAIN row \cup {"frequency"} |->
        IF column = "frequency" THEN f.frequency ELSE row[column]]

RECURSIVE merge_frequencies(_, _, _)
merge_frequencies(qa_pairs, question_frequencies, how) ==
    IF qa_pairs = <<>> THEN <<>>
    ELSE LET row == Head(qa_pairs)
             matches == SelectSeq(question_frequencies,
                                  LAMBDA f : f.question = row.question)
         IN joined([i \in 1..Len(matches) |-> with_frequency(row, matches[i])],
                   with_frequency(row, [frequency |-> NaN]), how)
            \o merge_frequencies(Tail(qa_pairs), question_frequencies, how)

\* qa_pairs["Temp"] = ...; rename: the column Answer holds the text the join
\* reads and the column Temp the text of the answer record.
with_temp(row, remove_newlines) ==
    [column \in DOMAIN row \cup {"Temp"} |->
        IF column = "Temp" THEN row.answer
        ELSE IF column = "answer" /\ remove_newlines THEN replace_newlines(row.answer)
        ELSE row[column]]

\* pandas.merge(qa_pairs, judgments, on=(QUESTION, ANSWER), how=how)
with_judgment(row, j) ==
    [column \in DOMAIN row \cup {"in_purview", "correct"} |->
        IF column \in {"in_purview", "correct"} THEN j[column] ELSE row[column]]

RECURSIVE merge_judgments(_, _, _)
merge_judgments(qa_pairs, judgments, how) ==
    IF qa_pairs = <<>> THEN <<>>
    ELSE LET row == Head(qa_pairs)
             matches == SelectSeq(judgments, LAMBDA j : SamePair(j, row))
         IN joined([i \in 1..Len(matches) |-> with_judgment(row, matches[i])],
                   with_judgment(row, [in_purview |-> NaN, correct |-> NaN]), how)
            \o merge_judgments(Tail(qa_pairs), judgments, how)

\* The output keeps the text the join has read.
keep_joined_answer(row) ==
    [question |-> row.question, answer |-> row.answer,
     confidence |-> row.confidence, frequency |-> row.frequency,
     in_purview |-> row.in_purview, correct |-> row.correct]

\* del qa_pairs[ANSWER]; rename Temp to Answer.  Without remove_newlines the
\* two columns hold the same text.
restore_answer(row) ==
    [question |-> row.question, answer |-> row.Temp,
     confidence |-> row.confidence, frequency |-> row.frequency,
     in_purview |-> row.in_purview, correct |-> row.correct]

\* analyze.py
add_judgments_and_frequencies_to_qa_pairs(qa_pairs, judgments, question_frequencies, remove_newlines) ==
    LET with_frequencies == merge_frequencies(qa_pairs, question_frequencies, "left")
        keyed == [i \in 1..Len(with_frequencies) |->
                     with_temp(with_frequencies[i], remove_newlines)]
        merged == merge_judgments(keyed, judgments, "left")
    IN Return([i \in 1..Len(merged) |-> restore_answer(merged[i])])

\* annotate.py, line 116: the column Answer of the frame that is passed is
\* overwritten.
stripped_answers(system_answers) ==
    [i \in 1..Len(system_answers) |->
        [system_answers[i] EXCEPT !.answer = replace_newlines(@)]]

\* annotate.py: the function of the same name, with inner joins, the judgments
\* joined before the frequencies.
annotate_add_judgments_and_frequencies_to_qa_pairs(system_answers, judgments, question_frequencies) ==
    LET stripped == stripped_answers(system_answers)
        judged == merge_judgments(stripped, judgments, "inner")
    IN Return(merge_frequencies(judged, question_frequencies, "inner"))

\* ---------------------------------------------------------------- collation
InitCollate ==
    /\ table = [qa_pairs |-> <<>>, judgments |-> <<>>, question_frequencies |-> <<>>]
    /\ call = NoCall
    /\ result = NoResult

\* The confidence the system gives to an answer text.
ConfidenceOfText(a) == ((Len(a) - 1) % MaxConfidence) + 1

AddAnswerRecord ==
    /\ call.fn = "none"
    /\ Len(table.qa_pairs) < MaxAnswerRecords
    /\ \E q \in Questions, a \in Texts :
          table' = [table EXCEPT
                       !.qa_pairs = Append(@, AnswerRecord(q, a, ConfidenceOfText(a)))]
    /\ UNCHANGED <<call, result>>

AddJudgment ==
    /\ call.fn = "none"
    /\ Len(table.judgments) < MaxJudgments
    /\ \E q \in Questions, a \in Texts, j \in Judged :
          table' = [table EXCEPT !.judgments = Append(@, JudgmentRow(q, a, j))]
    /\ UNCHANGED <<call, result>>

AddFrequency ==
    /\ call.fn = "none"
    /\ Len(table.question_frequencies) < MaxFrequencies
    /\ \E q \in Questions, f \in Frequencies :
          table' = [table EXCEPT !.question_frequencies = Append(@, FrequencyRow(q, f))]
    /\ UNCHANGED <<call, result>>

\* analyze.py's collator
Collate ==
    /\ call.fn = "none"
    /\ \E remove_newlines \in BOOLEAN :
          /\ call' = [fn |-> "add_judgments_and_frequencies_to_qa_pairs",
                      remove_newlines |-> remove_newlines]
          /\ result' = add_judgments_and_frequencies_to_qa_pairs(
                           table.qa_pairs, table.judgments,
                           table.question_frequencies, remove_newlines)
    /\ UNCHANGED table

\* annotate.py's collator, which works on the frame of the answers it is
\* given.
AnnotateCollate ==
    /\ call.fn = "none"
    /\ call' = [fn |-> "annotate.add_judgments_and_frequencies_to_qa_pairs"]
    /\ result' = annotate_add_judgments_and_frequencies_to_qa_pairs(
                     table.qa_pairs, table.judgments, table.question_frequencies)
    /\ table' = [table EXCEPT !.qa_pairs = stripped_answers(@)]

NextCollate ==
    AddAnswerRecord \/ AddJudgment \/ AddFrequency \/ Collate \/ AnnotateCollate

SpecCollate == InitCollate /\ [][NextCollate]_vars

CollateReturned ==
    call.fn = "add_judgments_and_frequencies_to_qa_pairs" /\ result.status = "ok"

\* No two rows of a table hold the same question and answer.
UniquePairs(t) ==
    \A i, j \in 1..Len(t) : (i # j) => ~SamePair(t[i], t[j])

\* C11: when the answer records of the system are unique per question and
\* answer, so are the rows of the collated table, which are all rows of that
\* system.
C11_CollatedKeysUnique ==
    (CollateReturned /\ UniquePairs(table.qa_pairs)) => UniquePairs(result.value)

\* The judgment fields of an output row: those of a judgment row for the
\* question and the answer without its newlines, or missing when there is no
\* such row.
JudgedByStrippedText(row) ==
    LET matching == {i \in 1..Len(table.judgments) :
                        /\ table.judgments[i].question = row.question
                        /\ table.judgments[i].answer = replace_newlines(row.answer)}
    IN IF matching = {}
       THEN row.in_purview = NaN /\ row.correct = NaN
       ELSE \E i \in matching :
               /\ row.in_purview = table.judgments[i].in_purview
               /\ row.correct = table.judgments[i].correct

\* C12: with remove_newlines, every output row holds the question, the
\* unchanged answer text and the confidence of an answer record, and the
\* judgment of the pair of the question and the text without newlines, or no
\* judgment when there is none; and no answer record is left out.
C12_JudgmentsJoinedOnStrippedText ==
    (CollateReturned /\ call.remove_newlines) =>
        /\ \A i \in 1..Len(result.value) :
              LET row == result.value[i]
              IN /\ \E record \in Range(table.qa_pairs) :
                        /\ record.question = row.question
                        /\ record.answer = row.answer
                        /\ record.confidence = row.confidence
                 /\ JudgedByStrippedText(row)
        /\ \A record \in Range(table.qa_pairs) :
              \E i \in 1..Len(result.value) :
                 /\ result.value[i].question = record.question
                 /\ result.value[i].answer = record.answer
                 /\ result.value[i].confidence = record.confidence

\* An answer with a newline is joined to the judgment of its text without
\* the newline, and another answer record has no judgment.
C12_Witness ==
    /\ CollateReturned
    /\ call.remove_newlines
    /\ \E i, k \in 1..Len(result.value) :
          /\ replace_newlines(result.value[i].answer) # result.value[i].answer
          /\ result.value[i].in_purview # NaN
          /\ result.value[k].in_purview = NaN

====
